---- MODULE Spec2Model ----
(***************************************************************************)
(* A model of the news search front end (src/main.go): the two HTTP        *)
(* handlers indexHandler and searchHandler, the upstream client getNews,   *)
(* and the helpers they use (strconv.Atoi, url.QueryEscape, %d formatting, *)
(* apiKeyHash, the Search methods).                                        *)
(*                                                                         *)
(* Strings are sequences of tokens.  Text that comes from outside the      *)
(* program (the q and page parameters, the API key) is a sequence of       *)
(* one-character tokens; a literal of the source is a single token.        *)
(* Each request is served by one atomic handler action: the handlers share *)
(* no writable state, and the only value they read, apiKey, is set once    *)
(* by main before the server listens.                                      *)
(***************************************************************************)
EXTENDS Integers, Sequences, FiniteSets, TLC

(***************************************************************************)
(* Bounds of the model and the inputs drawn within them.                   *)
(***************************************************************************)
MaxPageLen == 2
MaxTotal == 45

PageSize == 20

StatusOK == 200
StatusBadRequest == 400
StatusInternalServerError == 500

DigitChars == <<"0", "1", "2", "3", "4", "5", "6", "7", "8", "9">>

\* The characters a page parameter is built from: digits, signs, a letter.
PageAlphabet == {"0", "1", "2", "-", "a"}

RECURSIVE StringsUpTo(_, _)
StringsUpTo(alphabet, n) ==
    IF n = 0 THEN {<<>>}
    ELSE LET shorter == StringsUpTo(alphabet, n - 1)
         IN  shorter \cup {Append(s, c) : s \in shorter, c \in alphabet}

PageStrings == StringsUpTo(PageAlphabet, MaxPageLen)

\* Values of the q parameter: absent/empty, two words with a space between.
Queries == {<<>>, <<"a", " ", "b">>}

\* API keys main accepts (non-empty): one of at most 4 characters, one longer.
Keys == {<<"k", "e", "y">>, <<"s", "e", "c", "r", "t">>}

\* What http.Get and the upstream server can answer.
ArticleCounts == {0, 1, PageSize, PageSize + 1}
TotalResultsRange == (-1) .. MaxTotal

Upstreams ==
    {[net |-> FALSE, code |-> 0, wellFormed |-> FALSE, status |-> "", totalResults |-> 0, nArticles |-> 0]}
    \cup {[net |-> TRUE, code |-> c, wellFormed |-> FALSE, status |-> "", totalResults |-> 0, nArticles |-> 0] :
            c \in {200, 401}}
    \cup {[net |-> TRUE, code |-> c, wellFormed |-> TRUE, status |-> "error", totalResults |-> 0, nArticles |-> 0] :
            c \in {401, 429}}
    \cup {[net |-> TRUE, code |-> 200, wellFormed |-> TRUE, status |-> "ok", totalResults |-> t, nArticles |-> n] :
            t \in TotalResultsRange, n \in ArticleCounts}

\* How tpl.Execute can end: success, an error before any byte was written,
\* an error after the page was partly written (the 200 header is then sent).
TplOutcomes == {"ok", "err_before_write", "err_after_write"}

(***************************************************************************)
(* Pure helpers.                                                           *)
(***************************************************************************)
IsDigit(c) == \E i \in 1..10 : DigitChars[i] = c

DigitVal(c) == (CHOOSE i \in 1..10 : DigitChars[i] = c) - 1

RECURSIVE DigitsValue(_)
DigitsValue(s) ==
    IF s = <<>> THEN 0
    ELSE 10 * DigitsValue(SubSeq(s, 1, Len(s) - 1)) + DigitVal(s[Len(s)])

\* strconv.Atoi on a short string: an optional sign, then one or more digits.
Atoi(s) ==
    IF s = <<>> THEN [ok |-> FALSE, val |-> 0]
    ELSE LET signed == s[1] \in {"-", "+"}
             body == IF signed THEN Tail(s) ELSE s
         IN  IF body = <<>> \/ \E i \in 1..Len(body) : ~IsDigit(body[i])
             THEN [ok |-> FALSE, val |-> 0]
             ELSE [ok |-> TRUE,
                   val |-> IF s[1] = "-" THEN 0 - DigitsValue(body) ELSE DigitsValue(body)]

RECURSIVE NatDigits(_)
NatDigits(n) ==
    IF n < 10 THEN <<DigitChars[n + 1]>>
    ELSE Append(NatDigits(n \div 10), DigitChars[(n % 10) + 1])

\* The %d verb of fmt.
Itoa(n) == IF n < 0 THEN <<"-">> \o NatDigits(0 - n) ELSE NatDigits(n)

EscapeChar(c) ==
    IF c = " " THEN <<"+">>
    ELSE IF c = "&" THEN <<"%", "2", "6">>
    ELSE <<c>>

RECURSIVE QueryEscape(_)
QueryEscape(s) ==
    IF s = <<>> THEN <<>> ELSE EscapeChar(Head(s)) \o QueryEscape(Tail(s))

apiKeyHash(key) ==
    IF Len(key) <= 4 THEN <<"****">>
    ELSE <<"********">> \o SubSeq(key, Len(key) - 3, Len(key))

\* float64(a) / float64(b): exact as a fraction for the magnitudes modelled
\* (every int below 2^53 converts to float64 without rounding).
Float64Div(a, b) == [num |-> a, den |-> b]

\* math.Ceil of a fraction with a positive denominator.
MathCeil(x) ==
    IF x.num % x.den = 0 THEN x.num \div x.den ELSE (x.num \div x.den) + 1

EmptyResults == [Status |-> "", TotalResults |-> 0, Articles |-> <<>>]

(***************************************************************************)
(* The Search methods the template calls.                                  *)
(***************************************************************************)
IsLastPage(s) == s.CurrentPage >= s.TotalPages
HasPreviousPage(s) == s.CurrentPage > 1
HasNextPage(s) == s.CurrentPage < s.TotalPages

VARIABLES
    apiKey,     \* *apiKey, set once by main
    pc,         \* "listening": waiting for a request; "responded": a handler returned
    handler,    \* the handler that served the current request
    req,        \* the request: [q, page] as url.Values.Get returns them, and the inputs of the environment
    log,        \* the entries written to the log sink by the latest step
    status,     \* the status code of the response (0: none yet)
    body,       \* the body of the response
    newsCalls,  \* the calls of getNews made for the request, with what they returned
    httpGets,   \* the URLs http.Get was called with for the request
    executed    \* the values tpl.Execute was called with for the request

vars == <<apiKey, pc, handler, req, log, status, body, newsCalls, httpGets, executed>>

NoRequest == [q |-> <<>>, page |-> <<>>, up |-> CHOOSE u \in Upstreams : ~u.net, tpl |-> "ok"]


(***************************************************************************)
(* main, up to ListenAndServe: the key is set and its hash is logged.      *)
(***************************************************************************)
StartupLog(key) ==
    << <<"Using API key: ">> \o apiKeyHash(key) \o <<" (last 4 digits)">>,
       <<"Server listening on port ", "9000">> >>

Init ==
    /\ apiKey \in Keys
    /\ pc = "listening"
    /\ handler = "none"
    /\ req = NoRequest
    /\ log = StartupLog(apiKey)
    /\ status = 0
    /\ body = <<>>
    /\ newsCalls = <<>>
    /\ httpGets = <<>>
    /\ executed = <<>>

(***************************************************************************)
(* tpl.Execute(w, search) and the http.Error that follows its failure.     *)
(***************************************************************************)
RenderStatus(tpl) == IF tpl = "err_before_write" THEN StatusInternalServerError ELSE StatusOK

RenderBody(tpl) ==
    IF tpl = "ok" THEN <<"<page>">>
    ELSE IF tpl = "err_before_write" THEN <<"Failed to render template">>
    ELSE <<"<partial page>", "Failed to render template">>

RenderLog(tpl) ==
    IF tpl = "ok" THEN <<>> ELSE << <<"Error executing template: ", "<template error>">> >>

(***************************************************************************)
(* indexHandler                                                            *)
(***************************************************************************)
IndexSearch ==
    [SearchKey |-> <<>>, CurrentPage |-> 1, TotalPages |-> 0,
     PreviousPage |-> 0, NextPage |-> 0, Results |-> EmptyResults]

indexHandler(tpl) ==
    /\ pc' = "responded"
    /\ handler' = "index"
    /\ req' = [NoRequest EXCEPT !.tpl = tpl]
    /\ log' = << <<"indexHandler called">> >> \o RenderLog(tpl)
    /\ executed' = <<IndexSearch>>
    /\ status' = RenderStatus(tpl)
    /\ body' = RenderBody(tpl)
    /\ UNCHANGED <<apiKey, newsCalls, httpGets>>

(***************************************************************************)
(* getNews                                                                 *)
(***************************************************************************)
Endpoint(query, pageSize, page, key) ==
    <<"https://newsapi.org/v2/everything?q=">> \o QueryEscape(query)
        \o <<"&pageSize=">> \o Itoa(pageSize)
        \o <<"&page=">> \o Itoa(page)
        \o <<"&apiKey=">> \o key
        \o <<"&sortBy=publishedAt&language=en">>

\* json.NewDecoder(resp.Body).Decode(&results)
Decode(up) ==
    IF up.wellFormed
    THEN [ok |-> TRUE,
          results |-> [Status |-> up.status, TotalResults |-> up.totalResults,
                       Articles |-> [i \in 1..up.nArticles |-> i]]]
    ELSE [ok |-> FALSE, results |-> EmptyResults]

\* What getNews hands back when it fails with err, having logged entry.
NewsFailure(endpoint, err, entry) ==
    [results |-> EmptyResults, err |-> err,
     log |-> << <<"Requesting URL: ">> \o endpoint, entry >>,
     gets |-> <<endpoint>>]

\* The *url.Error of http.Get prints the operation and the URL.
GetError(endpoint) ==
    <<"HTTP Get error: ", "Get \"">> \o endpoint \o <<"\": ", "<network error>">>

\* getNews without the test of resp.StatusCode.
getNews_statusUnchecked(query, pageSize, page, key, up) ==
    LET endpoint == Endpoint(query, pageSize, page, key)
        decoded == Decode(up)
    IN  IF ~up.net
        THEN NewsFailure(endpoint, GetError(endpoint), GetError(endpoint))
        ELSE IF ~decoded.ok
        THEN NewsFailure(endpoint, <<"JSON decode error: ", "<decode error>">>,
                         <<"JSON decode error: ", "<decode error>">>)
        ELSE [results |-> decoded.results, err |-> <<>>,
              log |-> << <<"Requesting URL: ">> \o endpoint >>, gets |-> <<endpoint>>]

\* The value getNews returns, the entries it logs and the GETs it makes.
getNews(query, pageSize, page, key, up) ==
    LET endpoint == Endpoint(query, pageSize, page, key)
        decoded == Decode(up)
    IN  IF ~up.net
        THEN NewsFailure(endpoint, GetError(endpoint), GetError(endpoint))
        ELSE IF up.code # StatusOK
        THEN NewsFailure(endpoint,
                         <<"API status code error: ">> \o Itoa(up.code),
                         <<"API status code error: ">> \o Itoa(up.code) \o <<", body: ", "<body>">>)
        ELSE IF ~decoded.ok
        THEN NewsFailure(endpoint, <<"JSON decode error: ", "<decode error>">>,
                         <<"JSON decode error: ", "<decode error>">>)
        ELSE [results |-> decoded.results, err |-> <<>>,
              log |-> << <<"Requesting URL: ">> \o endpoint >>, gets |-> <<endpoint>>]

(***************************************************************************)
(* searchHandler                                                           *)
(***************************************************************************)
\* The default page left at the zero value of int.
ParsePage_zeroDefault(pageStr) ==
    IF pageStr # <<>>
    THEN LET p == Atoi(pageStr) IN [ok |-> p.ok, page |-> p.val]
    ELSE [ok |-> TRUE, page |-> 0]

\* The error of Atoi dropped: the page is whatever value came back.
ParsePage_errorIgnored(pageStr) ==
    IF pageStr # <<>>
    THEN LET p == Atoi(pageStr) IN [ok |-> TRUE, page |-> p.val]
    ELSE [ok |-> TRUE, page |-> 1]

\* The page of the request: 1 unless the parameter is given, then its value.
ParsePage(pageStr) ==
    IF pageStr # <<>>
    THEN LET p == Atoi(pageStr) IN [ok |-> p.ok, page |-> p.val]
    ELSE [ok |-> TRUE, page |-> 1]

\* Integer division where the ceiling of the quotient is meant.
TotalPagesOf_truncating(totalResults, pageSize) ==
    IF totalResults > 0 THEN totalResults \div pageSize ELSE 1

TotalPagesOf(totalResults, pageSize) ==
    IF totalResults > 0 THEN MathCeil(Float64Div(totalResults, pageSize)) ELSE 1

PreviousPageOf(currentPage) ==
    IF currentPage > 1 THEN currentPage - 1 ELSE 0

\* The next page without the test for the last page.
NextPageOf_unclamped(currentPage, totalPages) == currentPage + 1

NextPageOf(currentPage, totalPages) ==
    IF currentPage < totalPages THEN currentPage + 1 ELSE 0

\* The Search value the handler has built when it reaches tpl.Execute.
SearchOf(searchKey, page, results, pageSize) ==
    LET totalPages == TotalPagesOf(results.TotalResults, pageSize)
    IN  [SearchKey |-> searchKey, CurrentPage |-> page, TotalPages |-> totalPages,
         PreviousPage |-> PreviousPageOf(page),
         NextPage |-> NextPageOf(page, totalPages),
         Results |-> results]

BoolStr(b) == IF b THEN "true" ELSE "false"

SearchLog(s) ==
    << <<"SearchKey: ">> \o s.SearchKey,
       <<"CurrentPage: ">> \o Itoa(s.CurrentPage),
       <<"TotalPages: ">> \o Itoa(s.TotalPages),
       <<"NextPage: ">> \o Itoa(s.NextPage),
       <<"HasNextPage: ", BoolStr(HasNextPage(s))>>,
       <<"PreviousPage: ">> \o Itoa(s.PreviousPage),
       <<"HasPreviousPage: ", BoolStr(HasPreviousPage(s))>>,
       <<"search.Results.TotalResults = ">> \o Itoa(s.Results.TotalResults) \o <<" (type int)">> >>

searchHandler(q, pageStr, up, tpl) ==
    /\ pc' = "responded"
    /\ handler' = "search"
    /\ req' = [q |-> q, page |-> pageStr, up |-> up, tpl |-> tpl]
    /\ UNCHANGED apiKey
    /\ LET parsed == ParsePage(pageStr)
           news == getNews(q, PageSize, parsed.page, apiKey, up)
           search == SearchOf(q, parsed.page, news.results, PageSize)
       IN  IF ~parsed.ok
           THEN /\ log' = << <<"Error converting page to integer: ", "<syntax error>">> >>
                /\ status' = StatusBadRequest
                /\ body' = <<"Invalid page number">>
                /\ newsCalls' = <<>>
                /\ httpGets' = <<>>
                /\ executed' = <<>>
           ELSE /\ newsCalls' = <<[query |-> q, pageSize |-> PageSize, page |-> parsed.page,
                                   results |-> news.results, err |-> news.err]>>
                /\ httpGets' = news.gets
                /\ IF news.err # <<>>
                   THEN /\ log' = Append(news.log, <<"Error getting news: ">> \o news.err)
                        /\ status' = StatusInternalServerError
                        /\ body' = <<"Failed to get news">>
                        /\ executed' = <<>>
                   ELSE /\ log' = news.log \o SearchLog(search) \o RenderLog(tpl)
                        /\ executed' = <<search>>
                        /\ status' = RenderStatus(tpl)
                        /\ body' = RenderBody(tpl)

(***************************************************************************)
(* The server takes the next request once the handler has returned.        *)
(***************************************************************************)
serveNext ==
    /\ pc = "responded"
    /\ pc' = "listening"
    /\ handler' = "none"
    /\ req' = NoRequest
    /\ log' = <<>>
    /\ status' = 0
    /\ body' = <<>>
    /\ newsCalls' = <<>>
    /\ httpGets' = <<>>
    /\ executed' = <<>>
    /\ UNCHANGED apiKey

\* A request arrives only while the server listens; its inputs are then drawn.
Index ==
    /\ pc = "listening"
    /\ \E tpl \in TplOutcomes : indexHandler(tpl)

Search ==
    /\ pc = "listening"
    /\ \E q \in Queries, pageStr \in PageStrings, up \in Upstreams, tpl \in TplOutcomes :
          searchHandler(q, pageStr, up, tpl)

Next == Index \/ Search \/ serveNext

Spec == Init /\ [][Next]_vars


(***************************************************************************)
(* Notions the claims are stated with.                                     *)
(***************************************************************************)
\* searchHandler reached tpl.Execute for the current request.
SearchRendered == handler = "search" /\ executed # <<>>

\* An integer literal: an optional sign followed by at least one decimal digit.
IsIntegerLiteral(s) ==
    LET digits == IF s # <<>> /\ s[1] \in {"-", "+"} THEN Tail(s) ELSE s
    IN  /\ digits # <<>>
        /\ \A i \in 1..Len(digits) :
              digits[i] \in {"0", "1", "2", "3", "4", "5", "6", "7", "8", "9"}

\* The upstream call fails: no connection, a status other than 200, or a
\* body that is not the JSON of a result set.
UpstreamFails(up) == ~up.net \/ up.code # 200 \/ ~up.wellFormed

\* sub occurs in s as a contiguous run of tokens.
Contains(s, sub) ==
    \E i \in 1..(Len(s) - Len(sub) + 1) : SubSeq(s, i, i + Len(sub) - 1) = sub

(***************************************************************************)
(* C1: for every upstream totalResults >= 0, the Search value that         *)
(* searchHandler passes to the template carries that totalResults and has  *)
(* TotalPages = ceil(totalResults / 20) when totalResults > 0 (the least k *)
(* with 20 * k >= totalResults) and TotalPages = 1 when totalResults = 0;  *)
(* totalResults = 45 gives TotalPages = 3.                                 *)
(***************************************************************************)
C1_TotalPagesIsCeiling ==
    (SearchRendered /\ req.up.totalResults >= 0) =>
        LET s == executed[1]
            t == req.up.totalResults
        IN  /\ s.Results.TotalResults = t
            /\ t > 0 => (20 * s.TotalPages >= t /\ 20 * (s.TotalPages - 1) < t)
            /\ t = 0 => s.TotalPages = 1
            /\ t = 45 => s.TotalPages = 3

C1_Witness ==
    /\ SearchRendered
    /\ req.up.totalResults = 45
    /\ executed[1].TotalPages = 3

(***************************************************************************)
(* C2: in every Search value that searchHandler renders, PreviousPage is   *)
(* CurrentPage - 1 if CurrentPage > 1 and otherwise 0, and NextPage is     *)
(* CurrentPage + 1 if CurrentPage < TotalPages and otherwise 0.            *)
(***************************************************************************)
C2_PreviousAndNextPage ==
    SearchRendered =>
        LET s == executed[1]
        IN  /\ s.CurrentPage > 1 => s.PreviousPage = s.CurrentPage - 1
            /\ s.CurrentPage <= 1 => s.PreviousPage = 0
            /\ s.CurrentPage < s.TotalPages => s.NextPage = s.CurrentPage + 1
            /\ s.CurrentPage >= s.TotalPages => s.NextPage = 0
            /\ s.CurrentPage = 1 => s.PreviousPage = 0
            /\ s.CurrentPage = s.TotalPages => s.NextPage = 0

C2_Witness ==
    /\ SearchRendered
    /\ executed[1].CurrentPage = 2
    /\ executed[1].TotalPages = 2
    /\ executed[1].PreviousPage = 1
    /\ executed[1].NextPage = 0

C4_PageIsPositive ==
    handler = "search" =>
        /\ \A i \in DOMAIN newsCalls : newsCalls[i].page >= 1
        /\ \A i \in DOMAIN executed : executed[i].CurrentPage >= 1

(***************************************************************************)
(* C5: when the upstream call fails (no connection, a status other than    *)
(* 200, a malformed body), getNews returns an error and empty Results,     *)
(* searchHandler answers 500, the template is not executed, and exactly    *)
(* one GET was attempted.                                                  *)
(***************************************************************************)
C5_UpstreamFailureIs500 ==
    (handler = "search" /\ newsCalls # <<>> /\ UpstreamFails(req.up)) =>
        /\ Len(newsCalls) = 1
        /\ newsCalls[1].err # <<>>
        /\ newsCalls[1].results = [Status |-> "", TotalResults |-> 0, Articles |-> <<>>]
        /\ status = 500
        /\ executed = <<>>
        /\ Len(httpGets) = 1

C5_Witness ==
    /\ handler = "search"
    /\ req.up.net
    /\ req.up.code = 401
    /\ status = 500
    /\ Len(httpGets) = 1

(***************************************************************************)
(* C6: no entry written to the log sink contains the API key.              *)
(***************************************************************************)
C6_KeyNeverLogged ==
    \A i \in DOMAIN log : ~Contains(log[i], apiKey)

C8_AtMostPageSizeArticles ==
    handler = "search" =>
        /\ \A i \in DOMAIN newsCalls :
              newsCalls[i].err = <<>> => Len(newsCalls[i].results.Articles) <= 20
        /\ \A i \in DOMAIN executed : Len(executed[i].Results.Articles) <= 20

(***************************************************************************)
(* C9: every Search value passed to the template whose results are empty   *)
(* (totalResults = 0), by indexHandler or by searchHandler, has            *)
(* TotalPages = 1 and PreviousPage = NextPage = 0.                         *)
(***************************************************************************)
C9_OneConventionForNoResults ==
    \A i \in DOMAIN executed :
        executed[i].Results.TotalResults = 0 =>
            /\ executed[i].TotalPages = 1
            /\ executed[i].PreviousPage = 0
            /\ executed[i].NextPage = 0

(***************************************************************************)
(* C10: in every Search value that searchHandler renders, NextPage # 0     *)
(* exactly when HasNextPage(), PreviousPage # 0 exactly when               *)
(* HasPreviousPage(), and IsLastPage() is the negation of HasNextPage().   *)
(***************************************************************************)
C10_SentinelsAgreeWithHelpers ==
    SearchRendered =>
        LET s == executed[1]
        IN  /\ (s.NextPage # 0) <=> HasNextPage(s)
            /\ (s.PreviousPage # 0) <=> HasPreviousPage(s)
            /\ IsLastPage(s) <=> ~HasNextPage(s)

====
